---- MODULE Spec2Model ----
(***************************************************************************)
(* Model of cursor_automation.py: the button-classification / dispatch     *)
(* state machine (CursorAutomation.handle_button and the poll loop of      *)
(* CursorAutomation.run), the operator command thread                      *)
(* (CursorAutomation.handle_command), the checklist step resolution        *)
(* (CursorAutomation.parse_current_step, update_status), the region        *)
(* selection (CursorAutomation.select_region) and ProjectMetrics.          *)
(*                                                                         *)
(* A step of the model is what a thread does between two of the points     *)
(* where it waits (a sleep, a call of a collaborator, os.system, the read  *)
(* of the file): the two threads of run() share the object with no lock,   *)
(* and the file can be rewritten at any moment.                            *)
(*                                                                         *)
(* Text is modelled character by character: a Python str is a sequence of  *)
(* one-character strings.  The glyphs of the checklist are the characters  *)
(* "<IP>" (in progress), "<INC>" (incomplete), "<OK>" (complete).  An      *)
(* Optional[T] value is <<>> for None and <<v>> for the value v.  Time is  *)
(* counted in ticks of half a second (the period of the poll loop).        *)
(***************************************************************************)
EXTENDS Integers, Sequences, FiniteSets, TLC

VARIABLES
    last_text,              \* self.last_text : Optional[str]
    waiting_for_completion, \* self.waiting_for_completion
    messages_sent,          \* self.messages_sent
    commands_executed,      \* self.commands_executed
    is_paused,              \* self.is_paused
    last_status,            \* self.last_status
    running,                \* self.running
    seen_texts,             \* self.seen_texts
    current_step,           \* self.current_step : Optional[str]
    last_file_check,        \* self.last_file_check (ticks since the epoch)
    last_file_content,      \* self.last_file_content : Optional[str]
    steps_file,             \* the checklist file on disk: <<>> missing, <<text>> present
    now,                    \* time.time(), in ticks since the epoch
    keys_down,              \* keys the input-emission collaborator holds down
    pc,                     \* position of the main thread (main, run)
    text,                   \* local `text` of the poll loop in run()
    cmd_thread,             \* state of command_thread in run()
    last_cmd,               \* the last line handle_command was called with, normalised
    ticks,                  \* iterations of the poll loop started so far
    paused_emits,           \* actions emitted since the pause request in force
    hist,                   \* what each iteration of the poll loop did
    region,                 \* self.region : Optional[(left, top, right, bottom)]
    shown_step,             \* local current_step of show_startup_check: the value
                            \* parse_current_step returned to its latest direct caller
    parsed_steps,           \* local steps of parse_current_step, as that call built it
    m_steps,                \* ProjectMetrics.steps : step name -> StepMetrics
    m_current,              \* ProjectMetrics.current_step : Optional[str]
    m_saved,                \* the content of ProjectMetrics.metrics_file: <<>> not written
    m_calls,                \* calls of the methods of ProjectMetrics made so far
    cmd_local,              \* locals of the command thread inside update_status:
                            \* current_content and new_step
    diagnostics,            \* local diagnostics of show_startup_check: what
                            \* validate_file_format returned, <<>> before the call
                            \* and on a read error
    upd,                    \* the call of update_status or parse_current_step the
                            \* main thread is in: the statement it is at, the
                            \* status passed, the locals current_content and new_step
    emit,                   \* the calls of the input-emission collaborator the
                            \* main thread is making: for which message, how many
                            \* have returned
    ocr                     \* locals of get_button_text, from its call to the next
                            \* statement of the poll loop: whether take_screenshot
                            \* returned an image, and what the recognition
                            \* collaborator answers for each profile

session == <<last_text, waiting_for_completion, messages_sent, commands_executed,
             is_paused, running, seen_texts>>
tracking == <<last_status, current_step, last_file_check, last_file_content>>
vars == <<last_text, waiting_for_completion, messages_sent, commands_executed,
          is_paused, last_status, running, seen_texts, current_step,
          last_file_check, last_file_content, steps_file, now, keys_down, pc,
          text, cmd_thread, last_cmd, ticks, paused_emits, hist, region,
          shown_step, parsed_steps, m_steps, m_current, m_saved, m_calls,
          cmd_local, diagnostics, upd, emit, ocr>>
\* the local variables of parse_current_step and show_startup_check
parsing == <<shown_step, parsed_steps>>
\* the ProjectMetrics object and its file
metrics == <<m_steps, m_current, m_saved, m_calls>>
\* what neither the command thread nor the environment touches
aside == <<region, parsing, metrics, diagnostics, upd, emit, ocr>>

(***************************************************************************)
(* Bounds of the model.                                                    *)
(***************************************************************************)
\* iterations of the poll loop that are followed: the button state machine
MaxTicks == 3
\* iterations of the poll loop that are followed: the whole program
MaxPolls == 2
\* lines of a checklist document given to the parser
MaxLines == 3
\* ticks of the clock that the direct calls of parse_current_step are followed for
MaxClock == 3
\* calls of the methods of ProjectMetrics that are followed
MaxCalls == 3
\* the largest coordinate of the pointer
MaxCoord == 1
\* iterations of the poll loop that are followed: the counters
MaxSamples == 4
\* direct calls of type_complete_current_step and type_next_step that are followed
MaxMessages == 2

(***************************************************************************)
(* Strings.                                                                *)
(***************************************************************************)
None == <<>>
Some(v) == <<v>>

\* str.lower(), on the alphabet of the model
Lower(c) ==
    CASE c = "A" -> "a" [] c = "C" -> "c" [] c = "D" -> "d" [] c = "E" -> "e"
      [] c = "I" -> "i" [] c = "O" -> "o" [] c = "P" -> "p" [] c = "Q" -> "q"
      [] c = "R" -> "r" [] c = "S" -> "s" [] c = "T" -> "t" [] c = "U" -> "u"
      [] c = "X" -> "x" [] OTHER -> c

LowerStr(s) == [i \in 1..Len(s) |-> Lower(s[i])]

\* number of leading characters of s that belong to cs
RECURSIVE LeadIn(_, _)
LeadIn(s, cs) ==
    IF s = <<>> \/ Head(s) \notin cs THEN 0 ELSE 1 + LeadIn(Tail(s), cs)

\* number of trailing characters of s that belong to cs
RECURSIVE TrailIn(_, _)
TrailIn(s, cs) ==
    IF s = <<>> \/ s[Len(s)] \notin cs THEN 0
    ELSE 1 + TrailIn(SubSeq(s, 1, Len(s) - 1), cs)

\* str.strip(chars)
StripChars(s, cs) ==
    IF LeadIn(s, cs) = Len(s) THEN <<>>
    ELSE SubSeq(s, LeadIn(s, cs) + 1, Len(s) - TrailIn(s, cs))

\* str.strip()
Strip(s) == StripChars(s, {" ", "\t", "\n"})

\* p in s
Contains(s, p) ==
    \E i \in 1..(Len(s) - Len(p) + 1) : SubSeq(s, i, i + Len(p) - 1) = p

\* s.startswith(p)
StartsWith(s, p) == Len(s) >= Len(p) /\ SubSeq(s, 1, Len(p)) = p

\* s.replace(c, '') for a one-character c
Remove(s, c) == SelectSeq(s, LAMBDA x : x # c)

\* sep.join(parts)
RECURSIVE Join(_, _)
Join(parts, sep) ==
    IF parts = <<>> THEN <<>>
    ELSE IF Len(parts) = 1 THEN parts[1]
    ELSE parts[1] \o sep \o Join(Tail(parts), sep)

(***************************************************************************)
(* handle_button: the phrase lists and the classification.                 *)
(***************************************************************************)
accept_phrases ==
    { <<"r","u","n"," ","c","o","m","m","a","n","d">>,
      <<"r","u","n"," ","t","h","i","s"," ","c","o","m","m","a","n","d">>,
      <<"r","u","n"," ","t","h","e"," ","c","o","m","m","a","n","d">>,
      <<"a","c","c","e","p","t">>,
      <<"a","c","c","e","p","t"," ","a","l","l">>,
      <<"c","o","m","m","a","n","d">>,
      <<"c","o","m","m","a","n","d"," ","<CMD>">> }

completed_phrases ==
    { <<"c","o","m","p","l","e","t","e","d">>,
      <<"d","o","n","e">>,
      <<"s","u","c","c","e","s","s">>,
      <<"f","i","n","i","s","h","e","d">> }

busy_phrases ==
    { <<"g","e","n","e","r","a","t","i","n","g">>,
      <<"l","o","a","d","i","n","g">> }

dismiss_phrases ==
    { <<"c","a","n","c","e","l">>,
      <<"s","k","i","p">> }

is_accept_button(t) == \E phrase \in accept_phrases : Contains(LowerStr(t), phrase)

is_completed(t) == \E phrase \in completed_phrases : Contains(LowerStr(t), phrase)

is_busy(t) == \E phrase \in busy_phrases : Contains(LowerStr(t), phrase)

is_dismiss(t) == \E phrase \in dismiss_phrases : Contains(LowerStr(t), phrase)

\* str.splitlines(), on the alphabet of the model: the lines of s without their
\* "\n"; a final "\n" ends the last line and opens no other
RECURSIVE SplitLines(_)
SplitLines(s) ==
    IF s = <<>> THEN <<>>
    ELSE LET n == LeadIn(s, {c \in {s[i] : i \in 1..Len(s)} : c # "\n"}) IN
         IF n = Len(s) THEN <<s>>
         ELSE <<SubSeq(s, 1, n)>> \o SplitLines(SubSeq(s, n + 2, Len(s)))

(***************************************************************************)
(* parse_current_step: the checklist parser and the resolution rule.       *)
(***************************************************************************)
InProgressGlyph == "<IP>"
IncompleteGlyph == "<INC>"
CompleteGlyph == "<OK>"
Markers == {InProgressGlyph, IncompleteGlyph, CompleteGlyph}

\* the marker list without the complete glyph
HasMarkerOpenOnly(line) ==
    \E i \in 1..Len(line) : line[i] \in {InProgressGlyph, IncompleteGlyph}

HasMarker(line) == \E i \in 1..Len(line) : line[i] \in Markers

HasGlyph(line, g) == \E i \in 1..Len(line) : line[i] = g

\* line.replace(..).replace(..).replace(..).strip('- ').strip()
CleanStep(line) ==
    Strip(StripChars(Remove(Remove(Remove(line, InProgressGlyph), IncompleteGlyph),
                            CompleteGlyph), {"-", " "}))

\* the status with the complete glyph tested first
StepStatusCompleteFirst(line) ==
    IF HasGlyph(line, CompleteGlyph) THEN "complete"
    ELSE IF HasGlyph(line, InProgressGlyph) THEN "in_progress"
    ELSE "incomplete"

StepStatus(line) ==
    IF HasGlyph(line, InProgressGlyph) THEN "in_progress"
    ELSE IF HasGlyph(line, IncompleteGlyph) THEN "incomplete"
    ELSE "complete"

MainSectionAfter(line, main) ==
    IF StartsWith(line, <<"#","#"," ">>) THEN Strip(SubSeq(line, 4, Len(line)))
    ELSE main

\* the subsection kept across a level-2 heading
SubsectionAfterKept(line, sub) ==
    IF StartsWith(line, <<"#","#"," ">>) THEN sub
    ELSE IF StartsWith(line, <<"#","#","#"," ">>) THEN Strip(SubSeq(line, 5, Len(line)))
    ELSE sub

SubsectionAfter(line, sub) ==
    IF StartsWith(line, <<"#","#"," ">>) THEN <<>>
    ELSE IF StartsWith(line, <<"#","#","#"," ">>) THEN Strip(SubSeq(line, 5, Len(line)))
    ELSE sub

FullPath(main, sub, clean) ==
    IF sub # <<>> THEN <<main, sub, clean>> ELSE <<main, clean>>

\* the loop over enumerate(lines): k is the 1-based position, k - 1 the index i
RECURSIVE CollectSteps(_, _, _, _, _)
CollectSteps(lines, k, main, sub, steps) ==
    IF k > Len(lines) THEN steps
    ELSE LET line == Strip(lines[k])
             m == MainSectionAfter(line, main)
             s == SubsectionAfter(line, sub)
         IN  IF line = <<>> THEN CollectSteps(lines, k + 1, main, sub, steps)
             ELSE IF HasMarker(line)
             THEN CollectSteps(lines, k + 1, m, s,
                      Append(steps, [i |-> k - 1, status |-> StepStatus(line),
                                     full_path |-> FullPath(m, s, CleanStep(line))]))
             ELSE CollectSteps(lines, k + 1, m, s, steps)

ParseSteps(lines) == CollectSteps(lines, 1, <<>>, <<>>, <<>>)

WithStatus(steps, st) == SelectSeq(steps, LAMBDA s : s.status = st)

\* min(candidates, key=lambda x: x[0])
Earliest(candidates) ==
    candidates[CHOOSE j \in 1..Len(candidates) :
        /\ \A l \in 1..Len(candidates) : candidates[j].i <= candidates[l].i
        /\ \A l \in 1..(j - 1) : candidates[l].i > candidates[j].i]

PathSep == <<" ", ">", " ">>

\* the resolution taking the earliest step that is not complete
ResolveStepsAnyOpen(steps) ==
    IF SelectSeq(steps, LAMBDA s : s.status # "complete") # <<>>
    THEN Some(Join(Earliest(SelectSeq(steps, LAMBDA s : s.status # "complete")).full_path,
                   PathSep))
    ELSE None

\* the resolution at the end of parse_current_step: Optional[str]
ResolveSteps(steps) ==
    IF WithStatus(steps, "in_progress") # <<>>
    THEN Some(Join(Earliest(WithStatus(steps, "in_progress")).full_path, PathSep))
    ELSE IF WithStatus(steps, "incomplete") # <<>>
    THEN Some(Join(Earliest(WithStatus(steps, "incomplete")).full_path, PathSep))
    ELSE None

Resolve(lines) == ResolveSteps(ParseSteps(lines))

\* validate_file_format: the diagnostics of show_startup_check
RECURSIVE ValidateFrom(_, _, _)
ValidateFrom(lines, k, d) ==
    IF k > Len(lines) THEN d
    ELSE LET line == Strip(lines[k]) IN
         ValidateFrom(lines, k + 1,
            IF StartsWith(line, <<"#","#"," ">>) THEN [d EXCEPT !.has_sections = TRUE]
            ELSE IF StartsWith(line, <<"#","#","#"," ">>)
            THEN [d EXCEPT !.has_subsections = TRUE]
            ELSE IF HasGlyph(line, CompleteGlyph)
            THEN [d EXCEPT !.completed = @ + 1, !.total_steps = @ + 1]
            ELSE IF HasGlyph(line, IncompleteGlyph)
            THEN [d EXCEPT !.has_incomplete_markers = TRUE, !.incomplete = @ + 1,
                           !.total_steps = @ + 1]
            ELSE IF HasGlyph(line, InProgressGlyph)
            THEN [d EXCEPT !.has_progress_markers = TRUE, !.in_progress = @ + 1,
                           !.total_steps = @ + 1]
            ELSE d)

validate_file_format(lines) ==
    ValidateFrom(lines, 1,
        [has_sections |-> FALSE, has_subsections |-> FALSE,
         has_progress_markers |-> FALSE, has_incomplete_markers |-> FALSE,
         total_steps |-> 0, in_progress |-> 0, completed |-> 0, incomplete |-> 0])

\* diagnostics['issues'] is non-empty
HasIssues(d) ==
    \/ ~d.has_sections
    \/ (~d.has_progress_markers /\ ~d.has_incomplete_markers)

(***************************************************************************)
(* Time.                                                                   *)
(***************************************************************************)
\* one tick is the half second of time.sleep(0.5) in the poll loop
TicksPerSecond == 2
HalfSecond == TicksPerSecond \div 2
\* self.check_interval, in seconds
check_interval == 1
Interval == check_interval * TicksPerSecond
\* time.sleep(3) in main
StartDelaySeconds == 3
\* the countdown of select_region: range(3, 0, -1), one second each
CountdownSeconds == 3
\* time.time() when the process starts: any value past the check interval
BootTime == Interval

(***************************************************************************)
(* parse_current_step (with its cache) and update_status.  A call waits in *)
(* os.system (clear_console) before it reads anything, waits again in the  *)
(* read of the file, and returns to update_status, whose two assignments   *)
(* frame the prints to the console; both threads of run() make such calls  *)
(* with no lock.  A call is therefore a frame, of which `at` is the        *)
(* statement about to run:                                                 *)
(*   "enter"   the test of the file and of the check interval (166-173),   *)
(*   "read"    the read of the file (176-177),                             *)
(*   "compare" the content cache, the parse and the resolution (180-236),  *)
(*   "step"    the return and self.current_step = new_step (244-246),      *)
(*   "status"  self.last_status = status (269-270).                        *)
(***************************************************************************)
Tr == [last_status |-> last_status, current_step |-> current_step,
       last_file_check |-> last_file_check, last_file_content |-> last_file_content]

SetTracking(tr) ==
    /\ last_status' = tr.last_status
    /\ current_step' = tr.current_step
    /\ last_file_check' = tr.last_file_check
    /\ last_file_content' = tr.last_file_content

\* the tests of the file and of the check interval: the value returned at once
\* (at "step"), or the time of the check kept and the read to come (at "read")
ParseEnter(tr, file, t) ==
    IF file = None THEN [at |-> "step", new_step |-> None, tr |-> tr]
    ELSE IF t - tr.last_file_check < Interval
    THEN [at |-> "step", new_step |-> tr.current_step, tr |-> tr]
    ELSE [at |-> "read", new_step |-> None,
          tr |-> [tr EXCEPT !.last_file_check = t]]

\* the read of the file: the text, or the exception caught at line 234
ParseRead(file) ==
    IF file = None THEN [at |-> "step", content |-> None]
    ELSE [at |-> "compare", content |-> file]

\* the content cache (a comparison of the text read with the text kept), then
\* the parse of the lines of the text and the resolution
ParseCompare(tr, content) ==
    IF content = tr.last_file_content
    THEN [ret |-> tr.current_step, tr |-> tr]
    ELSE [ret |-> Resolve(SplitLines(content[1])),
          tr |-> [tr EXCEPT !.last_file_content = content]]

\* a call that nothing interleaves with: the value returned and the fields
\* after the call
parse_current_step(tr, file, t) ==
    LET e == ParseEnter(tr, file, t) IN
    IF e.at = "step" THEN [ret |-> e.new_step, tr |-> e.tr]
    ELSE ParseCompare(e.tr, ParseRead(file).content)

\* a status line: <<format, argument>>
Msg(tag) == <<tag, <<>>>>
MsgOf(tag, arg) == <<tag, arg>>
NoStatus == Msg("")

\* a call that nothing interleaves with: the fields after the call
update_status(tr, status, file, t) ==
    LET p == parse_current_step(tr, file, t) IN
    [p.tr EXCEPT !.current_step = p.ret,
                 !.last_status = IF status # NoStatus THEN status ELSE @]

\* the frame of the main thread: no call, a call of update_status(status), a
\* direct call of parse_current_step
Idle == [at |-> "none", kind |-> "none", status |-> NoStatus,
         content |-> None, new_step |-> None]
CallUpdate(status) == [Idle EXCEPT !.at = "enter", !.kind = "update", !.status = status]
CallParse == [Idle EXCEPT !.at = "enter", !.kind = "parse"]

(***************************************************************************)
(* The inputs of the model.                                                *)
(***************************************************************************)
\* the text of a file of these lines, with or without a final newline
Written(lines, final) == Join(lines, <<"\n">>) \o (IF final THEN <<"\n">> ELSE <<>>)

DocA == Written(<< <<"#","#"," ","S">>, <<"-"," ","<INC>"," ","a">>,
                   <<"#","#","#"," ","T">>, <<"-"," ","<IP>"," ","b">> >>, TRUE)
DocB == Written(<< <<"#","#"," ","S">>, <<"-"," ","<OK>"," ","a">>,
                   <<"-"," ","<INC>"," ","b">> >>, TRUE)
\* the lines of DocB, saved by an editor that writes no final newline
DocBare == SubSeq(DocB, 1, Len(DocB) - 1)
DocDone == Written(<< <<"#","#"," ","S">>, <<"-"," ","<OK>"," ","a">>,
                      <<"-"," ","<OK>"," ","b">> >>, TRUE)
Docs == {DocA, DocB, DocDone}
\* what the file is rewritten to while the program runs
Rewrites == Docs \cup {DocBare}

\* the lines of the documents given to the parser alone: headings, steps of
\* each status, a heading that carries a glyph, two lines that carry two
ParseLines ==
    { <<"#","#"," ","S">>, <<"#","#","#"," ","T">>,
      <<"-"," ","<IP>"," ","a">>, <<"-"," ","<INC>"," ","b">>,
      <<"-"," ","<OK>"," ","c">>, <<"#","#"," ","H"," ","<INC>">>,
      <<" ","-"," ","<OK>"," ","<IP>"," ","d">>,
      <<"-"," ","<OK>"," ","<INC>"," ","e">> }

\* the texts of at most MaxLines of these lines, the shorter ones also without
\* the newline that ends the last line
ParseDocs ==
    UNION { { Written(ls, final) : ls \in [1..n -> ParseLines],
                                   final \in IF n < MaxLines THEN BOOLEAN ELSE {TRUE} } :
            n \in 0..MaxLines }

\* what the recognition collaborator returns, before .lower().strip()
TextAccept == <<"A","c","c","e","p","t">>
TextCommand == <<"c","o","m","m","a","n","d">>
TextDone == <<" ","D","o","n","e"," ">>
TextAcceptDone == <<"a","c","c","e","p","t"," ","d","o","n","e">>
TextLoading == <<"l","o","a","d","i","n","g">>
TextSkip == <<"s","k","i","p">>
TextUnknown == <<"x","y","z">>
OcrRaise == <<"<raise>">>
OcrBlanks == {<<>>, <<" ">>}
Profiles == <<"--psm 7 --oem 3", "--psm 6 --oem 3", "--psm 3 --oem 3">>
\* the answers of the recognition collaborator to the successive calls of one
\* tick: blank up to some profile, then a text of texts, a blank or an exception
\* (get_button_text makes no call after the first answer that is not blank)
OcrRuns(texts) ==
    { [i \in 1..Len(Profiles) |-> IF i < j THEN b ELSE o] :
          j \in 1..Len(Profiles), b \in OcrBlanks,
          o \in texts \cup OcrBlanks \cup {OcrRaise} }
NoOcr == [i \in 1..Len(Profiles) |-> <<>>]
\* no screenshot taken, no recognition call made
NoSample == [screenshot |-> FALSE, results |-> NoOcr]

\* the step names and the statuses ProjectMetrics is called with
StepNames == { <<>>, <<"A">>, <<"B">> }
Statuses == { CompleteGlyph, IncompleteGlyph }

\* the lines the operator types
CommandLines ==
    { <<"s","t","o","p">>, <<"E","X","I","T"," ">>, <<"q","u","i","t">>,
      <<"p","a","u","s","e">>, <<"r","e","s","u","m","e">>, <<" ">> }

(***************************************************************************)
(* The input-emission collaborator (keyboard, pyautogui).  A call that     *)
(* raises has no effect; the calls before it have had theirs.              *)
(***************************************************************************)
\* handle_button, the try block of the accept branch
AcceptCalls ==
    << [op |-> "press", key |-> "ctrl"], [op |-> "press", key |-> "enter"],
       [op |-> "release", key |-> "enter"], [op |-> "release", key |-> "ctrl"],
       [op |-> "hotkey", key |-> "ctrl+enter"] >>

\* type_continue_implementation
ContinueCalls ==
    << [op |-> "press_and_release", key |-> "ctrl+/"],
       [op |-> "write", key |-> "message"],
       [op |-> "tap", key |-> "enter"] >>

RECURSIVE KeysAfter(_, _)
KeysAfter(keys, calls) ==
    IF calls = <<>> THEN keys
    ELSE KeysAfter(
            CASE Head(calls).op = "press" -> keys \cup {Head(calls).key}
              [] Head(calls).op = "release" -> keys \ {Head(calls).key}
              [] OTHER -> keys,
            Tail(calls))

(***************************************************************************)
(* handle_button: which branch a sample takes.                             *)
(***************************************************************************)
\* handle_button without the comparison with last_text
BranchNoDebounce(t, lt, waiting) ==
    IF t = <<>> THEN "return"
    ELSE IF is_accept_button(t) THEN "accept"
    ELSE IF is_completed(t) /\ waiting THEN "continue"
    ELSE IF is_busy(t) THEN "busy"
    ELSE IF is_dismiss(t) THEN "dismiss"
    ELSE "none"

\* handle_button without the test of waiting_for_completion
BranchNoLatch(t, lt, waiting) ==
    IF t = <<>> THEN "return"
    ELSE IF is_accept_button(t) /\ Some(t) # lt THEN "accept"
    ELSE IF is_completed(t) THEN "continue"
    ELSE IF is_busy(t) THEN "busy"
    ELSE IF is_dismiss(t) THEN "dismiss"
    ELSE "none"

\* handle_button testing the completion phrases before the accept phrases
BranchCompletedFirst(t, lt, waiting) ==
    IF t = <<>> THEN "return"
    ELSE IF is_completed(t) /\ waiting THEN "continue"
    ELSE IF is_accept_button(t) /\ Some(t) # lt THEN "accept"
    ELSE IF is_busy(t) THEN "busy"
    ELSE IF is_dismiss(t) THEN "dismiss"
    ELSE "none"

\* handle_button taking a busy text for a completion
BranchBusyCompletes(t, lt, waiting) ==
    IF t = <<>> THEN "return"
    ELSE IF is_accept_button(t) /\ Some(t) # lt THEN "accept"
    ELSE IF (is_completed(t) \/ is_busy(t)) /\ waiting THEN "continue"
    ELSE IF is_busy(t) THEN "busy"
    ELSE IF is_dismiss(t) THEN "dismiss"
    ELSE "none"

Branch(t, lt, waiting) ==
    IF t = <<>> THEN "return"
    ELSE IF is_accept_button(t) /\ Some(t) # lt THEN "accept"
    ELSE IF is_completed(t) /\ waiting THEN "continue"
    ELSE IF is_busy(t) THEN "busy"
    ELSE IF is_dismiss(t) THEN "dismiss"
    ELSE "none"

\* the increment placed before the calls of the collaborator
CommandsAfterAcceptEager(cmds, fail) == cmds + 1

\* self.commands_executed after the try block of the accept branch: the
\* increment follows the calls of the collaborator
CommandsAfterAccept(cmds, fail) == IF fail = 0 THEN cmds + 1 ELSE cmds

\* the latch set before the calls of the collaborator
WaitingAfterAcceptAlways(waiting, fail) == TRUE

\* self.waiting_for_completion after the try block of the accept branch
WaitingAfterAccept(waiting, fail) == IF fail = 0 THEN TRUE ELSE waiting

\* self.messages_sent after type_continue_implementation returned
MessagesAfterContinue(msgs) == msgs + 1

\* self.last_text = text, the last statement of handle_button
LastTextAfter(t, lt, branch) == Some(t)

\* one poll tick as hist keeps it: the text sampled, the branch handle_button
\* took, the call of the collaborator that raised (0: none) and the number of
\* calls that returned
Tick(t, branch, fail, calls) ==
    [text |-> t, branch |-> branch, fail |-> fail, calls |-> calls]

(***************************************************************************)
(* The initial state: CursorAutomation.__init__, called by main once the   *)
(* steps file is known to exist.                                           *)
(***************************************************************************)
NoEmit == [kind |-> "none", calls |-> 0]

InitFile(docs) ==
    /\ last_text = None
    /\ waiting_for_completion = FALSE
    /\ messages_sent = 0
    /\ commands_executed = 0
    /\ is_paused = FALSE
    /\ last_status = NoStatus
    /\ running = TRUE
    /\ seen_texts = {}
    /\ current_step = None
    /\ last_file_check = 0
    /\ last_file_content = None
    /\ steps_file \in {Some(d) : d \in docs}
    /\ now = BootTime
    /\ keys_down = {}
    /\ pc = "startup"
    /\ text = <<>>
    /\ cmd_thread = "unstarted"
    /\ last_cmd = None
    /\ ticks = 0
    /\ paused_emits = 0
    /\ hist = <<>>
    /\ region = None
    /\ shown_step = None
    /\ parsed_steps = <<>>
    /\ m_steps = [n \in StepNames |-> None]
    /\ m_current = None
    /\ m_saved = None
    /\ m_calls = 0
    /\ cmd_local = [current_content |-> None, new_step |-> None]
    /\ diagnostics = None
    /\ upd = Idle
    /\ emit = NoEmit
    /\ ocr = NoSample

Init == InitFile(Docs)

(***************************************************************************)
(* The call of update_status or parse_current_step the main thread is in.  *)
(***************************************************************************)
\* what a statement of the main thread leaves alone, whichever it is
MainRest ==
    /\ ocr' = NoSample
    /\ UNCHANGED <<steps_file, cmd_thread, last_cmd, cmd_local, metrics>>

\* parse_current_step: the test of the file and of the check interval
MainParseEnter ==
    /\ upd.at = "enter"
    /\ SetTracking(ParseEnter(Tr, steps_file, now).tr)
    /\ upd' = [upd EXCEPT !.at = ParseEnter(Tr, steps_file, now).at,
                          !.new_step = ParseEnter(Tr, steps_file, now).new_step]
    /\ MainRest
    /\ UNCHANGED <<session, now, keys_down, pc, text, ticks, paused_emits, hist,
                   region, parsing, diagnostics, emit>>

\* parse_current_step: current_content = f.read()
MainParseRead ==
    /\ upd.at = "read"
    /\ upd' = [upd EXCEPT !.at = ParseRead(steps_file).at,
                          !.content = ParseRead(steps_file).content]
    /\ MainRest
    /\ UNCHANGED <<session, tracking, now, keys_down, pc, text, ticks, paused_emits,
                   hist, region, parsing, diagnostics, emit>>

\* parse_current_step: the content cache, then the parse and the resolution
MainParseCompare ==
    /\ upd.at = "compare"
    /\ SetTracking(ParseCompare(Tr, upd.content).tr)
    /\ parsed_steps' = IF upd.content # last_file_content
                       THEN ParseSteps(SplitLines(upd.content[1])) ELSE parsed_steps
    /\ upd' = [upd EXCEPT !.at = "step", !.content = None,
                          !.new_step = ParseCompare(Tr, upd.content).ret]
    /\ MainRest
    /\ UNCHANGED <<session, now, keys_down, pc, text, ticks, paused_emits, hist,
                   region, shown_step, diagnostics, emit>>

\* parse_current_step returns to its direct caller
ParseReturn ==
    /\ upd.at = "step"
    /\ upd.kind = "parse"
    /\ shown_step' = upd.new_step
    /\ upd' = Idle
    /\ MainRest
    /\ UNCHANGED <<session, tracking, now, keys_down, pc, text, ticks, paused_emits,
                   hist, region, parsed_steps, diagnostics, emit>>

\* update_status: if new_step != self.current_step: self.current_step = new_step
UpdateStep ==
    /\ upd.at = "step"
    /\ upd.kind = "update"
    /\ current_step' = upd.new_step
    /\ upd' = [upd EXCEPT !.at = "status", !.new_step = None]
    /\ MainRest
    /\ UNCHANGED <<session, last_status, last_file_check, last_file_content, now,
                   keys_down, pc, text, ticks, paused_emits, hist, region, parsing,
                   diagnostics, emit>>

\* update_status: if status: self.last_status = status
UpdateStatus ==
    /\ upd.at = "status"
    /\ last_status' = IF upd.status # NoStatus THEN upd.status ELSE last_status
    /\ upd' = Idle
    /\ MainRest
    /\ UNCHANGED <<session, current_step, last_file_check, last_file_content, now,
                   keys_down, pc, text, ticks, paused_emits, hist, region, parsing,
                   diagnostics, emit>>

\* the statements of a call of update_status the main thread is in
MainUpdate ==
    \/ MainParseEnter
    \/ MainParseRead
    \/ MainParseCompare
    \/ UpdateStep
    \/ UpdateStatus

\* the statements of a call the main thread is in
MainCall ==
    \/ MainUpdate
    \/ ParseReturn

(***************************************************************************)
(* main: show_startup_check, select_region, run.                           *)
(***************************************************************************)
\* show_startup_check up to the return of validate_file_format, which reads
\* the file; a read error leaves no statistics
ShowStartupCheck ==
    /\ pc = "startup"
    /\ upd.at = "none"
    /\ diagnostics' = IF steps_file = None THEN None
                       ELSE Some(validate_file_format(SplitLines(steps_file[1])))
    /\ pc' = "checked"
    /\ MainRest
    /\ UNCHANGED <<session, tracking, now, keys_down, text, ticks, paused_emits,
                   hist, region, parsing, upd, emit>>

\* the statistics are printed; on a read error or an issue the operator
\* presses Enter and sys.exit(1) ends the process
StartupExit ==
    /\ pc = "checked"
    /\ IF diagnostics = None THEN TRUE ELSE HasIssues(diagnostics[1])
    /\ pc' = "exited"
    /\ MainRest
    /\ UNCHANGED <<session, tracking, now, keys_down, text, ticks, paused_emits,
                   hist, region, parsing, diagnostics, upd, emit>>

\* the statistics and the warnings are printed; show_startup_check calls
\* parse_current_step
StartupParse ==
    /\ pc = "checked"
    /\ IF diagnostics = None THEN FALSE ELSE ~HasIssues(diagnostics[1])
    /\ pc' = "starting"
    /\ upd' = CallParse
    /\ MainRest
    /\ UNCHANGED <<session, tracking, now, keys_down, text, ticks, paused_emits,
                   hist, region, parsing, diagnostics, emit>>

\* show_startup_check returns; time.sleep(3) in main
StartDelay ==
    /\ pc = "starting"
    /\ upd.at = "none"
    /\ now' = now + StartDelaySeconds * TicksPerSecond
    /\ pc' = "select"
    /\ MainRest
    /\ UNCHANGED <<session, tracking, keys_down, text, ticks, paused_emits, hist,
                   region, parsing, diagnostics, upd, emit>>

\* (left, top, right, bottom) of the two pointer positions
RegionOf(p1, p2) ==
    <<IF p1[1] <= p2[1] THEN p1[1] ELSE p2[1], IF p1[2] <= p2[2] THEN p1[2] ELSE p2[2],
      IF p1[1] >= p2[1] THEN p1[1] ELSE p2[1], IF p1[2] >= p2[2] THEN p1[2] ELSE p2[2]>>

\* select_region: the pointer is at p1, then at p2, when 'S' is pressed; the
\* countdown, then the call of update_status
SelectRegion(p1, p2) ==
    /\ pc = "select"
    /\ upd.at = "none"
    /\ region' = Some(RegionOf(p1, p2))
    /\ now' = now + HalfSecond + CountdownSeconds * TicksPerSecond
    /\ upd' = CallUpdate(Msg("Region selected"))
    /\ pc' = "run"
    /\ MainRest
    /\ UNCHANGED <<session, tracking, keys_down, text, ticks, paused_emits, hist,
                   parsing, diagnostics, emit>>

\* run: the call of update_status
RunStart ==
    /\ pc = "run"
    /\ upd.at = "none"
    /\ upd' = CallUpdate(Msg("Starting automation"))
    /\ pc' = "spawn"
    /\ MainRest
    /\ UNCHANGED <<session, tracking, now, keys_down, text, ticks, paused_emits,
                   hist, region, parsing, diagnostics, emit>>

\* run: threading.Thread(target=command_thread, daemon=True).start()
StartCommandThread ==
    /\ pc = "spawn"
    /\ upd.at = "none"
    /\ cmd_thread' = "alive"
    /\ pc' = "top"
    /\ ocr' = NoSample
    /\ UNCHANGED <<session, tracking, steps_file, now, keys_down, text, last_cmd,
                   ticks, paused_emits, hist, cmd_local, metrics, region, parsing,
                   diagnostics, upd, emit>>

(***************************************************************************)
(* run: the poll loop.                                                     *)
(***************************************************************************)
\* while self.running: if not self.is_paused:
\* the loop without the test of is_paused
PollTopIgnoresPause(max_ticks) ==
    /\ pc = "top"
    /\ IF ~running THEN pc' = "done" /\ UNCHANGED <<hist, ticks>>
       ELSE /\ ticks < max_ticks
            /\ ticks' = ticks + 1
            /\ pc' = "sample"
            /\ hist' = hist
    /\ MainRest
    /\ UNCHANGED <<session, tracking, now, keys_down, text, paused_emits, region,
                   parsing, diagnostics, upd, emit>>

PollTop(max_ticks) ==
    /\ pc = "top"
    /\ IF ~running THEN pc' = "done" /\ UNCHANGED <<hist, ticks>>
       ELSE /\ ticks < max_ticks
            /\ ticks' = ticks + 1
            /\ IF ~is_paused THEN pc' = "sample" /\ hist' = hist
               ELSE pc' = "sleep" /\ hist' = Append(hist, Tick(<<>>, "paused", 0, 0))
    /\ MainRest
    /\ UNCHANGED <<session, tracking, now, keys_down, text, paused_emits, region,
                   parsing, diagnostics, upd, emit>>

\* the profiles tried from the last one to the first
RECURSIVE FirstTextFromLast(_, _)
FirstTextFromLast(results, k) ==
    IF k > Len(Profiles) THEN [text |-> <<>>, raised |-> FALSE]
    ELSE IF results[Len(Profiles) + 1 - k] = OcrRaise THEN [text |-> <<>>, raised |-> TRUE]
    ELSE IF Strip(LowerStr(results[Len(Profiles) + 1 - k])) # <<>>
    THEN [text |-> Strip(LowerStr(results[Len(Profiles) + 1 - k])), raised |-> FALSE]
    ELSE FirstTextFromLast(results, k + 1)

\* get_button_text: the first non-empty result of the profiles, in order
RECURSIVE FirstText(_, _)
FirstText(results, k) ==
    IF k > Len(Profiles) THEN [text |-> <<>>, raised |-> FALSE]
    ELSE IF results[k] = OcrRaise THEN [text |-> <<>>, raised |-> TRUE]
    ELSE IF Strip(LowerStr(results[k])) # <<>>
    THEN [text |-> Strip(LowerStr(results[k])), raised |-> FALSE]
    ELSE FirstText(results, k + 1)

\* text = self.get_button_text(), up to its call of update_status if it makes
\* one; the test `if text:` of run follows that call
GetButtonText(shot_ok, results) ==
    /\ pc = "sample"
    /\ upd.at = "none"
    /\ ~shot_ok => results = NoOcr   \* no screenshot: no recognition call
    /\ LET r == FirstText(results, 1) IN
       IF ~shot_ok
       THEN /\ upd' = CallUpdate(Msg("Screenshot error"))
            /\ text' = <<>>
            /\ seen_texts' = seen_texts
       ELSE IF r.raised
       THEN /\ upd' = CallUpdate(Msg("Error reading text"))
            /\ text' = <<>>
            /\ seen_texts' = seen_texts
       ELSE /\ text' = r.text
            /\ IF r.text # <<>> /\ r.text \notin seen_texts
               THEN /\ seen_texts' = seen_texts \cup {r.text}
                    /\ upd' = CallUpdate(MsgOf("New text detected", r.text))
               ELSE UNCHANGED <<seen_texts, upd>>
    /\ IF text' # <<>> THEN pc' = "handle" /\ hist' = hist
       ELSE pc' = "sleep" /\ hist' = Append(hist, Tick(<<>>, "skipped", 0, 0))
    /\ ocr' = [screenshot |-> shot_ok, results |-> results]
    /\ UNCHANGED <<last_text, waiting_for_completion, messages_sent, commands_executed,
                   is_paused, running, tracking, steps_file, now, keys_down, cmd_thread,
                   last_cmd, ticks, paused_emits, emit, region, parsing, metrics,
                   cmd_local, diagnostics>>

Last(h) == h[Len(h)]

\* the status line of each message typed into the chat
SentStatus(kind) ==
    CASE kind = "continue" -> Msg("Sent continue message")
      [] kind = "complete" -> Msg("Sent: Complete current step")
      [] OTHER -> Msg("Sent: Move to next step")

\* handle_button(text), up to the first call of update_status of the branch
\* taken, or to the last statement when the branch makes none
HandleButton ==
    /\ pc = "handle"
    /\ upd.at = "none"
    /\ LET b == Branch(text, last_text, waiting_for_completion) IN
       /\ hist' = Append(hist, Tick(text, b, 0, 0))
       /\ paused_emits' = IF is_paused /\ b \in {"accept", "continue"}
                          THEN paused_emits + 1 ELSE paused_emits
       /\ CASE b = "accept" ->
               /\ upd' = CallUpdate(MsgOf("Found button", text))
               /\ emit' = [kind |-> "accept", calls |-> 0]
               /\ pc' = "keys"
            [] b = "continue" ->
               /\ upd' = CallUpdate(Msg("Task completed, continuing implementation"))
               /\ emit' = [kind |-> "continue", calls |-> 0]
               /\ pc' = "type"
            [] b \in {"busy", "dismiss"} ->
               /\ upd' = IF Some(text) = last_text THEN upd
                         ELSE IF b = "busy" THEN CallUpdate(Msg("Waiting for generation"))
                         ELSE CallUpdate(Msg("Cancel/Skip button detected, waiting"))
               /\ emit' = emit
               /\ pc' = "last"
            [] b = "none" ->
               /\ pc' = "last"
               /\ UNCHANGED <<upd, emit>>
            [] OTHER ->
               /\ pc' = "sleep"
               /\ UNCHANGED <<upd, emit>>
    /\ MainRest
    /\ UNCHANGED <<session, tracking, now, keys_down, text, ticks, region, parsing,
                   diagnostics>>

\* the accept branch, one call of the collaborator at a time: time.sleep(self.delay)
\* before the first, the pauses of 0.15 s (d ticks with the delay) before the
\* last; call number fail raises (0: none).  The last call is followed by the
\* increment and the call of update_status, a call that raises by the except block
AcceptCall(fail, d) ==
    /\ pc = "keys"
    /\ upd.at = "none"
    /\ LET k == emit.calls + 1 IN
       /\ fail \in {0, k}
       /\ now' = now + (IF k = 1 THEN HalfSecond
                        ELSE IF k = Len(AcceptCalls) THEN d - HalfSecond ELSE 0)
       /\ IF fail = k
          THEN /\ hist' = [hist EXCEPT ![Len(hist)].fail = k]
               /\ commands_executed' = CommandsAfterAccept(commands_executed, k)
               /\ upd' = CallUpdate(Msg("Error pressing Ctrl+Enter"))
               /\ emit' = NoEmit
               /\ pc' = "last"
               /\ UNCHANGED keys_down
          ELSE /\ keys_down' = KeysAfter(keys_down, <<AcceptCalls[k]>>)
               /\ hist' = [hist EXCEPT ![Len(hist)].calls = k]
               /\ IF k = Len(AcceptCalls)
                  THEN /\ commands_executed' = CommandsAfterAccept(commands_executed, 0)
                       /\ upd' = CallUpdate(Msg("Pressed Ctrl+Enter"))
                       /\ emit' = NoEmit
                       /\ pc' = "last"
                  ELSE /\ emit' = [emit EXCEPT !.calls = k]
                       /\ UNCHANGED <<commands_executed, upd, pc>>
    /\ MainRest
    /\ UNCHANGED <<last_text, waiting_for_completion, messages_sent, is_paused,
                   running, seen_texts, tracking, text, ticks, paused_emits, region,
                   parsing, diagnostics>>

\* type_continue_implementation, type_complete_current_step, type_next_step, one
\* call of the collaborator at a time: the half second that precedes it (the one
\* of handle_button before the first call of the continue branch), then the
\* call; call number fail raises (0: none) and nothing catches the exception.
\* The last call is followed by the increment and the call of update_status
TypeCall(fail) ==
    /\ pc = "type"
    /\ upd.at = "none"
    /\ LET k == emit.calls + 1 IN
       /\ fail \in {0, k}
       /\ now' = now + (IF k > 1 \/ emit.kind = "continue" THEN HalfSecond ELSE 0)
       /\ IF fail = k
          THEN /\ hist' = IF emit.kind = "continue"
                          THEN [hist EXCEPT ![Len(hist)].fail = k] ELSE hist
               /\ emit' = NoEmit
               /\ pc' = "crashed"
               /\ UNCHANGED <<keys_down, messages_sent, upd>>
          ELSE /\ keys_down' = KeysAfter(keys_down, <<ContinueCalls[k]>>)
               /\ hist' = IF emit.kind = "continue"
                          THEN [hist EXCEPT ![Len(hist)].calls = k] ELSE hist
               /\ IF k = Len(ContinueCalls)
                  THEN /\ messages_sent' = MessagesAfterContinue(messages_sent)
                       /\ upd' = CallUpdate(SentStatus(emit.kind))
                       /\ emit' = NoEmit
                       /\ pc' = IF emit.kind = "continue" THEN "last" ELSE "startup"
                  ELSE /\ emit' = [emit EXCEPT !.calls = k]
                       /\ UNCHANGED <<messages_sent, upd, pc>>
    /\ MainRest
    /\ UNCHANGED <<last_text, waiting_for_completion, commands_executed, is_paused,
                   running, seen_texts, tracking, text, ticks, paused_emits, region,
                   parsing, diagnostics>>

\* the statements of handle_button after the last call of update_status:
\* self.waiting_for_completion of the branch taken, then self.last_text = text
HandleReturn ==
    /\ pc = "last"
    /\ upd.at = "none"
    /\ waiting_for_completion' =
           CASE Last(hist).branch = "accept" ->
                    WaitingAfterAccept(waiting_for_completion, Last(hist).fail)
             [] Last(hist).branch = "continue" -> FALSE
             [] OTHER -> waiting_for_completion
    /\ last_text' = LastTextAfter(text, last_text, Last(hist).branch)
    /\ pc' = "sleep"
    /\ MainRest
    /\ UNCHANGED <<messages_sent, commands_executed, is_paused, running, seen_texts,
                   tracking, now, keys_down, text, ticks, paused_emits, hist, region,
                   parsing, diagnostics, upd, emit>>

\* time.sleep(0.5)
PollSleep ==
    /\ pc = "sleep"
    /\ upd.at = "none"
    /\ now' = now + HalfSecond
    /\ pc' = "top"
    /\ MainRest
    /\ UNCHANGED <<session, tracking, keys_down, text, ticks, paused_emits, hist,
                   region, parsing, diagnostics, upd, emit>>

(***************************************************************************)
(* type_complete_current_step and type_next_step: no statement of the      *)
(* source calls them; they are called on the object as constructed.        *)
(***************************************************************************)
TypeCompleteCurrentStep ==
    /\ pc = "startup"
    /\ upd.at = "none"
    /\ messages_sent < MaxMessages
    /\ emit' = [kind |-> "complete", calls |-> 0]
    /\ pc' = "type"
    /\ MainRest
    /\ UNCHANGED <<session, tracking, now, keys_down, text, ticks, paused_emits,
                   hist, region, parsing, diagnostics, upd>>

TypeNextStep ==
    /\ pc = "startup"
    /\ upd.at = "none"
    /\ messages_sent < MaxMessages
    /\ emit' = [kind |-> "next", calls |-> 0]
    /\ pc' = "type"
    /\ MainRest
    /\ UNCHANGED <<session, tracking, now, keys_down, text, ticks, paused_emits,
                   hist, region, parsing, diagnostics, upd>>


(***************************************************************************)
(* command_thread and handle_command.  cmd_thread is "alive" while the     *)
(* thread waits in input(), then the statement of update_status it is      *)
(* about to run, as for the main thread.                                   *)
(***************************************************************************)
StopCommands == { <<"s","t","o","p">>, <<"e","x","i","t">>, <<"q","u","i","t">> }

\* the methods handle_command calls that the class does not define:
\* set_current_step, complete_current_step, show_metrics, super().handle_command
RaisesAttributeError(cmd, step) ==
    IF StartsWith(cmd, <<"s","t","e","p"," ">>) THEN TRUE
    ELSE IF cmd = <<"c","o","m","p","l","e","t","e">> THEN TRUE
    ELSE IF cmd = <<"f","a","i","l">> THEN TRUE
    ELSE IF cmd = <<"m","e","t","r","i","c","s">> THEN TRUE
    ELSE IF cmd \in StopCommands THEN step # None
    ELSE TRUE

\* the process is alive and inside the poll loop of run(): the daemon thread
\* can run
MainInLoop == pc \in {"top", "sample", "handle", "keys", "type", "last", "sleep"}

\* what a statement of the command thread leaves alone, whichever it is
CommandRest ==
    UNCHANGED <<last_text, waiting_for_completion, messages_sent, commands_executed,
                is_paused, seen_texts, steps_file, now, keys_down, pc, text, ticks,
                paused_emits, hist, aside>>

\* cmd = input().strip(); if cmd: self.handle_command(cmd), up to the call of
\* update_status that stop makes
Command(line) ==
    /\ cmd_thread = "alive"
    /\ MainInLoop
    /\ running
    /\ IF Strip(line) = <<>>
       THEN UNCHANGED <<running, cmd_thread, last_cmd>>
       ELSE LET cmd == Strip(LowerStr(Strip(line))) IN
            /\ last_cmd' = Some(cmd)
            /\ IF RaisesAttributeError(cmd, current_step)
               THEN cmd_thread' = "dead" /\ UNCHANGED running
               ELSE cmd_thread' = "enter" /\ running' = FALSE
    /\ CommandRest
    /\ UNCHANGED <<tracking, cmd_local>>

\* parse_current_step: the test of the file and of the check interval
StopParseEnter ==
    /\ cmd_thread = "enter"
    /\ MainInLoop
    /\ SetTracking(ParseEnter(Tr, steps_file, now).tr)
    /\ cmd_thread' = ParseEnter(Tr, steps_file, now).at
    /\ cmd_local' = [cmd_local EXCEPT !.new_step = ParseEnter(Tr, steps_file, now).new_step]
    /\ CommandRest
    /\ UNCHANGED <<running, last_cmd>>

\* parse_current_step: current_content = f.read()
StopParseRead ==
    /\ cmd_thread = "read"
    /\ MainInLoop
    /\ cmd_thread' = ParseRead(steps_file).at
    /\ cmd_local' = [cmd_local EXCEPT !.current_content = ParseRead(steps_file).content]
    /\ CommandRest
    /\ UNCHANGED <<running, last_cmd, tracking>>

\* parse_current_step: the content cache, then the parse and the resolution
StopParseCompare ==
    /\ cmd_thread = "compare"
    /\ MainInLoop
    /\ SetTracking(ParseCompare(Tr, cmd_local.current_content).tr)
    /\ cmd_local' = [current_content |-> None,
                     new_step |-> ParseCompare(Tr, cmd_local.current_content).ret]
    /\ cmd_thread' = "step"
    /\ CommandRest
    /\ UNCHANGED <<running, last_cmd>>

\* update_status: if new_step != self.current_step: self.current_step = new_step
StopAssign ==
    /\ cmd_thread = "step"
    /\ MainInLoop
    /\ current_step' = cmd_local.new_step
    /\ cmd_local' = [cmd_local EXCEPT !.new_step = None]
    /\ cmd_thread' = "status"
    /\ CommandRest
    /\ UNCHANGED <<running, last_cmd, last_status, last_file_check, last_file_content>>

\* update_status: self.last_status = status; handle_command returns
StopStatus ==
    /\ cmd_thread = "status"
    /\ MainInLoop
    /\ last_status' = Msg("Stopping automation")
    /\ cmd_thread' = "alive"
    /\ CommandRest
    /\ UNCHANGED <<running, last_cmd, cmd_local, current_step, last_file_check,
                   last_file_content>>

\* while self.running: is false, or input() raises EOFError
CommandThreadExit ==
    /\ cmd_thread = "alive"
    /\ MainInLoop
    /\ cmd_thread' = "ended"
    /\ CommandRest
    /\ UNCHANGED <<running, last_cmd, cmd_local, tracking>>

\* the command thread is inside update_status
InUpdateStatus == cmd_thread \in {"enter", "read", "compare", "step", "status"}

\* the statements of the command thread, the operator typing a line of lines
CommandThread(lines) ==
    \/ \E line \in lines : Command(line)
    \/ StopParseEnter
    \/ StopParseRead
    \/ StopParseCompare
    \/ StopAssign
    \/ StopStatus
    \/ CommandThreadExit

(***************************************************************************)
(* The environment: the checklist file is rewritten or removed, at any     *)
(* moment of the life of the process.                                      *)
(***************************************************************************)
FileEdit(d) ==
    /\ pc \notin {"exited", "crashed", "done"}
    /\ steps_file # Some(d)
    /\ steps_file' = Some(d)
    /\ UNCHANGED <<session, tracking, now, keys_down, pc, text, cmd_thread, last_cmd,
                   ticks, paused_emits, hist, cmd_local, aside>>

FileRemove ==
    /\ pc \notin {"exited", "crashed", "done"}
    /\ steps_file # None
    /\ steps_file' = None
    /\ UNCHANGED <<session, tracking, now, keys_down, pc, text, cmd_thread, last_cmd,
                   ticks, paused_emits, hist, cmd_local, aside>>

(***************************************************************************)
(* The specifications.                                                     *)
(***************************************************************************)
\* the poll loop followed for max_ticks iterations, with the recognition
\* collaborator answering from texts
Sampling(max_ticks, texts) ==
    \/ PollTop(max_ticks)
    \/ \E shot_ok \in BOOLEAN, results \in OcrRuns(texts) :
           GetButtonText(shot_ok, results)
    \/ HandleButton
    \/ HandleReturn
    \/ PollSleep

\* the emission collaborator raising at one of fails (0: never), the accept
\* branch taking one of delays ticks
Poll(max_ticks, texts, fails, delays) ==
    \/ Sampling(max_ticks, texts)
    \/ \E fail \in fails, d \in delays : AcceptCall(fail, d)
    \/ \E fail \in fails : TypeCall(fail)

Startup ==
    \/ ShowStartupCheck
    \/ StartupExit
    \/ StartupParse
    \/ StartDelay
    \/ SelectRegion(<<0, 0>>, <<1, 1>>)   \* a region one pixel wide and high
    \/ RunStart
    \/ StartCommandThread

CoreTexts == {TextAccept, TextDone}

\* the whole program: main thread, command thread, the checklist saved
\* without its final newline or removed
Next ==
    \/ Startup
    \/ MainCall
    \/ Poll(MaxPolls, CoreTexts, {0, 1}, {HalfSecond})
    \/ CommandThread(CommandLines)
    \/ FileEdit(DocBare)
    \/ FileRemove

Spec == Init /\ [][Next]_vars

\* the button state machine: accept and completion texts, no operator, no edit
ButtonTexts == {TextAccept, TextCommand, TextDone, TextAcceptDone}

NextButton ==
    \/ Startup
    \/ MainCall
    \* no call of the collaborator raises, or the first, a middle or the last one
    \/ Poll(MaxTicks, ButtonTexts, {0, 1, 3, Len(AcceptCalls)}, {HalfSecond})

SpecButton == Init /\ [][NextButton]_vars

\* the button state machine on informational texts
InfoTexts == {TextAccept, TextLoading, TextSkip, TextUnknown}

NextInfo ==
    \/ Startup
    \/ MainCall
    \/ Sampling(MaxTicks, InfoTexts)
    \/ \E fail \in 0..Len(AcceptCalls) : AcceptCall(fail, HalfSecond)

SpecInfo == Init /\ [][NextInfo]_vars

(***************************************************************************)
(* The counters: accept and completion texts over a longer run, the        *)
(* collaborator raising in its first call or not at all.                   *)
(***************************************************************************)
CounterTexts == {TextAccept, TextDone, TextAcceptDone}

NextCounters ==
    \/ Startup
    \/ MainCall
    \/ Poll(MaxSamples, CounterTexts, {0, 1}, {HalfSecond})

SpecCounters == Init /\ [][NextCounters]_vars

(***************************************************************************)
(* The recognition collaborator answering each profile on its own: a text, *)
(* a blank or an exception, independently for the three profiles.          *)
(***************************************************************************)
OcrAll == [1..Len(Profiles) -> CoreTexts \cup OcrBlanks \cup {OcrRaise}]

NextOcr ==
    \/ Startup
    \/ MainCall
    \/ PollTop(MaxPolls)
    \/ \E shot_ok \in BOOLEAN, results \in OcrAll : GetButtonText(shot_ok, results)
    \/ HandleButton
    \/ \E d \in {HalfSecond, 2 * HalfSecond} : AcceptCall(0, d)
    \/ TypeCall(0)
    \/ HandleReturn
    \/ PollSleep

SpecOcr == Init /\ [][NextOcr]_vars

(***************************************************************************)
(* The parser alone: parse_current_step called directly, as                *)
(* show_startup_check calls it, on any document of ParseDocs; dt is the    *)
(* time since the call before.                                             *)
(***************************************************************************)
ParseCurrentStep(dt) ==
    /\ pc = "startup"
    /\ upd.at = "none"
    /\ now + dt <= BootTime + MaxClock
    /\ now' = now + dt
    /\ upd' = CallParse
    /\ MainRest
    /\ UNCHANGED <<session, tracking, keys_down, pc, text, ticks, paused_emits, hist,
                   region, parsing, diagnostics, emit>>

InitParse == InitFile(ParseDocs)

NextParse ==
    \/ \E dt \in {0, HalfSecond, Interval} : ParseCurrentStep(dt)
    \/ MainParseEnter
    \/ MainParseRead
    \/ MainParseCompare
    \/ ParseReturn

SpecParse == InitParse /\ [][NextParse]_vars

(***************************************************************************)
(* The startup on any document of ParseDocs: show_startup_check validates  *)
(* the file, prints, then exits on an issue and parses the file otherwise. *)
(***************************************************************************)
NextStartup ==
    \/ Startup
    \/ MainCall

SpecStartup == InitParse /\ [][NextStartup]_vars

(***************************************************************************)
(* The operator typing any of the commands, with a single button text.    *)
(***************************************************************************)
OperatorLines ==
    CommandLines \cup
    { <<"s","t","e","p"," ","x">>, <<"c","o","m","p","l","e","t","e">>,
      <<"f","a","i","l">>, <<"m","e","t","r","i","c","s">>,
      <<"h","e","l","l","o">> }

NextCommands ==
    \/ Startup
    \/ MainCall
    \/ Sampling(MaxPolls, {TextAccept})
    \/ AcceptCall(0, HalfSecond)
    \/ CommandThread(OperatorLines)

SpecCommands == Init /\ [][NextCommands]_vars

(***************************************************************************)
(* The region selected with the pointer anywhere, with a single button     *)
(* text.                                                                   *)
(***************************************************************************)
Points == (0..MaxCoord) \X (0..MaxCoord)

NextRegion ==
    \/ ShowStartupCheck
    \/ StartupExit
    \/ StartupParse
    \/ StartDelay
    \/ \E p1 \in Points, p2 \in Points : SelectRegion(p1, p2)
    \/ RunStart
    \/ StartCommandThread
    \/ MainCall
    \/ Sampling(MaxPolls, {TextAccept})
    \/ AcceptCall(0, HalfSecond)

SpecRegion == Init /\ [][NextRegion]_vars

(***************************************************************************)
(* The two threads and the file: the operator stops the program while the  *)
(* poll loop runs and the checklist is rewritten.                          *)
(***************************************************************************)
NextThreads ==
    \/ Startup
    \/ MainCall
    \/ Poll(MaxPolls, CoreTexts, {0}, {HalfSecond})
    \/ CommandThread(StopCommands)
    \/ \E d \in Rewrites : FileEdit(d)

SpecThreads == Init /\ [][NextThreads]_vars

(***************************************************************************)
(* Direct calls of the public methods that run() does not call, or calls   *)
(* through others: parse_current_step, type_complete_current_step and      *)
(* type_next_step, on a file that is rewritten between and during them.    *)
(***************************************************************************)
NextMethods ==
    \/ \E dt \in {0, Interval} : ParseCurrentStep(dt)
    \/ TypeCompleteCurrentStep
    \/ TypeNextStep
    \/ \E fail \in {0, 1} : TypeCall(fail)
    \/ MainCall
    \/ \E d \in Rewrites : FileEdit(d)

SpecMethods == Init /\ [][NextMethods]_vars

(***************************************************************************)
(* ProjectMetrics.  steps maps every step name to <<>> (no entry) or to    *)
(* <<m>>, m the StepMetrics of that name; the file holds what save_metrics *)
(* wrote last.  A Python value is true when it is neither None nor empty   *)
(* nor zero.                                                               *)
(***************************************************************************)
\* if self.current_step:
HasCurrent(m) == m.current # None /\ m.current[1] # <<>>

\* if self.current_step and self.current_step in self.steps:
CurrentInSteps(m) == HasCurrent(m) /\ m.steps[m.current[1]] # None

\* StepMetrics(step_name=step_name, start_time=time.time())
StepMetrics(t) ==
    [start_time |-> t, end_time |-> None, status |-> InProgressGlyph,
     duration |-> None, commands_executed |-> 0, messages_sent |-> 0]

RECURSIVE SumDurations(_, _)
SumDurations(stepmap, names) ==
    IF names = {} THEN 0
    ELSE LET n == CHOOSE x \in names : TRUE IN
         (IF stepmap[n] # None /\ stepmap[n][1].duration # None
          THEN stepmap[n][1].duration[1] ELSE 0)
         + SumDurations(stepmap, names \ {n})

get_total_duration(m) == SumDurations(m.steps, StepNames)

save_metrics(m) ==
    [m EXCEPT !.saved = Some([total_duration |-> get_total_duration(m),
                              steps |-> m.steps])]

end_step(m, status, t) ==
    IF CurrentInSteps(m)
    THEN save_metrics([m EXCEPT !.steps[m.current[1]] =
             Some([m.steps[m.current[1]][1] EXCEPT
                      !.end_time = Some(t),
                      !.status = status,
                      !.duration = Some(t - m.steps[m.current[1]][1].start_time)])])
    ELSE m

start_step(m, step_name, t) ==
    LET m1 == IF HasCurrent(m) THEN end_step(m, CompleteGlyph, t) ELSE m IN
    [m1 EXCEPT !.current = Some(step_name),
               !.steps[step_name] = Some(StepMetrics(t))]

update_step_metrics(m, commands, messages) ==
    IF CurrentInSteps(m)
    THEN save_metrics([m EXCEPT !.steps[m.current[1]] =
             Some([m.steps[m.current[1]][1] EXCEPT
                      !.commands_executed = commands,
                      !.messages_sent = messages])])
    ELSE m

\* the object before a call
PM == [steps |-> m_steps, current |-> m_current, saved |-> m_saved]

\* one call of a method, dt ticks after the call before; m is the object after it
MetricsCall(m, dt) ==
    /\ m_calls < MaxCalls
    /\ m_calls' = m_calls + 1
    /\ now' = now + dt
    /\ m_steps' = m.steps
    /\ m_current' = m.current
    /\ m_saved' = m.saved
    /\ UNCHANGED <<session, tracking, steps_file, keys_down, pc, text, cmd_thread,
                   last_cmd, ticks, paused_emits, hist, region, parsing, cmd_local,
                   diagnostics, upd, emit, ocr>>

StartStep(step_name, dt) == MetricsCall(start_step(PM, step_name, now + dt), dt)

EndStep(status, dt) == MetricsCall(end_step(PM, status, now + dt), dt)

UpdateStepMetrics(commands, messages, dt) ==
    MetricsCall(update_step_metrics(PM, commands, messages), dt)

\* save_metrics called directly
SaveMetrics(dt) == MetricsCall(save_metrics(PM), dt)

NextMetrics ==
    \/ \E step_name \in StepNames, dt \in {0, HalfSecond} : StartStep(step_name, dt)
    \/ \E status \in Statuses, dt \in {0, HalfSecond} : EndStep(status, dt)
    \/ \E dt \in {0, HalfSecond} : UpdateStepMetrics(1, 2, dt)
    \/ \E dt \in {0, HalfSecond} : SaveMetrics(dt)

SpecMetrics == Init /\ [][NextMetrics]_vars

(***************************************************************************)
(* Pause and resume.  No statement of the source assigns is_paused after   *)
(* __init__; the two requests below are the transitions of the design      *)
(* (pause: Running -> Paused, resume: Paused -> Running), so that the      *)
(* test of is_paused in run() can be examined.                             *)
(***************************************************************************)
PauseRequest ==
    /\ MainInLoop
    /\ running
    /\ ~is_paused
    /\ is_paused' = TRUE
    /\ paused_emits' = 0
    /\ hist' = hist
    /\ UNCHANGED <<last_text, waiting_for_completion, messages_sent, commands_executed,
                   running, seen_texts, tracking, steps_file, now, keys_down, pc, text,
                   cmd_thread, last_cmd, ticks, cmd_local>>
    /\ UNCHANGED aside

ResumeRequest ==
    /\ MainInLoop
    /\ running
    /\ is_paused
    /\ is_paused' = FALSE
    /\ paused_emits' = 0
    /\ hist' = hist
    /\ UNCHANGED <<last_text, waiting_for_completion, messages_sent, commands_executed,
                   running, seen_texts, tracking, steps_file, now, keys_down, pc, text,
                   cmd_thread, last_cmd, ticks, cmd_local>>
    /\ UNCHANGED aside

NextPause ==
    \/ Startup
    \/ MainCall
    \/ Poll(MaxTicks, CoreTexts, {0}, {HalfSecond})
    \/ PauseRequest
    \/ ResumeRequest

SpecPause == Init /\ [][NextPause]_vars

(***************************************************************************)
(* Properties.                                                             *)
(***************************************************************************)
\* the samples handle_button was called with, in order
Samples == SelectSeq(hist, LAMBDA e : e.text # <<>>)

\* sample j differs from the sample before it (which is last_text)
ChangedAt(h, j) == j = 1 \/ h[j - 1].text # h[j].text

\* the step is the entry of a call of handle_button, down to the branch taken
HandleStep == pc = "handle" /\ pc' # "handle" /\ Len(hist') = Len(hist) + 1

\* the step is the return of a call of handle_button
ReturnStep == pc = "last" /\ pc' = "sleep"

\* the main thread is inside handle_button, past the choice of the branch
InBranch == pc \in {"keys", "type", "last"}

\* no call of handle_button is under way or was left by an exception
Returned == pc \notin {"keys", "type", "last", "crashed"}

\* every call of the collaborator that the action makes has returned
AcceptDone(e) == e.branch = "accept" /\ e.calls = Len(AcceptCalls)
ContinueDone(e) == e.branch = "continue" /\ e.calls = Len(ContinueCalls)

\* C1. Debounce of the accept action.  Of two consecutive samples with the
\* same accept text the second never takes the accept branch, and the first
\* takes it when it differs from the sample before it: the pair fires once.
\* Of two consecutive samples with different accept texts both take it: the
\* pair fires twice.  commands_executed counts the accept branches whose
\* emission the collaborator completed.
C1_Debounce ==
    LET h == Samples IN
    /\ \A j \in 1..(Len(h) - 1) :
          (is_accept_button(h[j].text) /\ is_accept_button(h[j + 1].text)) =>
             /\ (ChangedAt(h, j) => h[j].branch = "accept")
             /\ IF h[j + 1].text = h[j].text
                THEN h[j + 1].branch # "accept"
                ELSE h[j + 1].branch = "accept"
    /\ commands_executed = Cardinality({j \in 1..Len(h) : AcceptDone(h[j])})

\* two different accept texts fired twice, the second one repeated fired once
C1_Witness ==
    LET h == Samples IN
    /\ Len(h) = 3
    /\ is_accept_button(h[1].text) /\ is_accept_button(h[2].text)
    /\ h[1].text # h[2].text /\ h[3].text = h[2].text
    /\ AcceptDone(h[1]) /\ AcceptDone(h[2]) /\ h[3].branch # "accept"
    /\ commands_executed = 2

\* C2. Latch.  The continue action is emitted only by a sample that matches a
\* completion phrase while waiting_for_completion is true; an emission that
\* completes adds one to messages_sent, and handle_button then returns with
\* waiting_for_completion false; messages_sent changes in no other way; and every continue action
\* follows a completed accept action with no completed continue in between
\* (waiting_for_completion starts false).
C2_ContinueStep ==
    /\ (HandleStep /\ Last(hist').branch = "continue") =>
          /\ is_completed(text)
          /\ waiting_for_completion
    /\ (messages_sent' # messages_sent) =>
          /\ InBranch
          /\ ~ContinueDone(Last(hist))
          /\ ContinueDone(Last(hist'))
          /\ messages_sent' = messages_sent + 1
    /\ (ReturnStep /\ ContinueDone(Last(hist))) => ~waiting_for_completion'

C2_ContinueFollowsAccept ==
    LET h == Samples IN
    \A j \in 1..Len(h) :
       h[j].branch = "continue" =>
          \E i \in 1..(j - 1) :
             /\ AcceptDone(h[i])
             /\ \A k \in (i + 1)..(j - 1) : ~ContinueDone(h[k])

C2_Latch == [][C2_ContinueStep]_vars /\ [](C2_ContinueFollowsAccept)

\* a completion before any accept emitted nothing; after an accept it continued
C2_Witness ==
    LET h == Samples IN
    /\ Len(h) = 3
    /\ is_completed(h[1].text) /\ h[1].branch = "none"
    /\ AcceptDone(h[2])
    /\ ContinueDone(h[3])
    /\ messages_sent = 1
    /\ ~waiting_for_completion

\* C3. Accept decision and precedence.  Every sample that matches an accept
\* phrase and differs from last_text takes the accept branch, also when it
\* matches a completion phrase and waiting_for_completion is true: the
\* continue action is not emitted (messages_sent is unchanged), and when the
\* collaborator completes the emission commands_executed grows by exactly
\* one and handle_button returns with waiting_for_completion true.
C3_AcceptStep ==
    /\ (HandleStep /\ is_accept_button(text) /\ Some(text) # last_text) =>
          /\ Last(hist').branch = "accept"
          /\ messages_sent' = messages_sent
    /\ (InBranch /\ Last(hist).branch = "accept") =>
          /\ messages_sent' = messages_sent
          /\ (AcceptDone(Last(hist')) /\ ~AcceptDone(Last(hist))) =>
                 commands_executed' = commands_executed + 1
          /\ (ReturnStep /\ AcceptDone(Last(hist))) => waiting_for_completion'

C3_AcceptPrecedence == [][C3_AcceptStep]_vars

\* a text matching both phrase lists, read while waiting, was accepted
C3_Witness ==
    LET h == Samples IN
    /\ Len(h) >= 2
    /\ AcceptDone(h[1])
    /\ is_accept_button(h[2].text) /\ is_completed(h[2].text)
    /\ AcceptDone(h[2])
    /\ commands_executed = 2
    /\ messages_sent = 0
    /\ waiting_for_completion

\* the accept action fired at tick i of hist for the text read again at tick k,
\* and no tick in between read that text
ReadAgain(i, k) ==
    /\ i + 1 < k
    /\ hist[k].text # <<>>
    /\ is_accept_button(hist[k].text)
    /\ hist[i].text = hist[k].text
    /\ AcceptDone(hist[i])
    /\ \A j \in (i + 1)..(k - 1) : hist[j].text # hist[k].text

\* C4. Suppression reset.  After the accept action fired for t, one or more
\* ticks with a result other than t (another text, or no text at all), then t
\* again: the accept action fires again for t.
C4_SuppressionReset ==
    \A i \in 1..Len(hist), k \in 1..Len(hist) :
       ReadAgain(i, k) => hist[k].branch = "accept"

\* C5.  Emission failures are not fatal: whatever call of the collaborator
\* raised, in the accept or in the continue action, the main thread is still
\* in the poll loop, and it leaves the loop only once running is false.
C5_EmissionFailureNotFatal ==
    /\ (\E j \in 1..Len(hist) : hist[j].fail # 0) => pc # "crashed"
    /\ pc = "done" => ~running

\* C6. State unchanged on emission error.  In a call of handle_button in which
\* the collaborator raises, neither the call that raises nor any statement
\* after it changes waiting_for_completion, commands_executed or
\* messages_sent (no statement before it does, by C2 and C3): they are as
\* they were before the sample.
C6_FailedStep ==
    (InBranch /\ Last(hist').fail # 0) =>
       /\ waiting_for_completion' = waiting_for_completion
       /\ commands_executed' = commands_executed
       /\ messages_sent' = messages_sent

C6_StateUnchangedOnError == [][C6_FailedStep]_vars

\* an accept emission failed, and the accept action for the same text was
\* emitted by a later sample
C6_Witness ==
    LET h == Samples IN
    /\ Len(h) = 3
    /\ h[1].branch = "accept" /\ h[1].fail # 0
    /\ h[3].text = h[1].text
    /\ AcceptDone(h[3])
    /\ commands_executed = 1
    /\ waiting_for_completion

\* C7.  Stop is terminal from any state: once handle_command has processed
\* stop, exit or quit, running is false.
C7_StopClearsRunning ==
    (last_cmd # None /\ last_cmd[1] \in StopCommands) => ~running

\* C8.  Pause and resume: once handle_command has processed pause the session
\* is paused, and once it has processed resume it is not.
C8_PauseResumeCommands ==
    /\ last_cmd = Some(<<"p","a","u","s","e">>) => is_paused
    /\ last_cmd = Some(<<"r","e","s","u","m","e">>) => ~is_paused

\* C9.  Paused skips all work.  An iteration of the poll loop that begins with
\* is_paused true goes straight to its sleep: no sampling, no dispatch, no key
\* or counter touched.  Since is_paused is read at the top of an iteration
\* only, at most one action is emitted after a pause request (by the
\* iteration in flight).
C9_PausedIteration ==
    (pc = "top" /\ pc' # "top" /\ running /\ is_paused) =>
       /\ pc' = "sleep"
       /\ Last(hist').branch = "paused"
       /\ UNCHANGED <<last_text, waiting_for_completion, messages_sent,
                      commands_executed, seen_texts, text, keys_down, tracking>>

C9_PausedSkipsAllWork == [][C9_PausedIteration]_vars /\ [](paused_emits <= 1)

\* the iteration in flight emitted after the pause request, the next one slept
C9_Witness ==
    /\ is_paused
    /\ paused_emits = 1
    /\ Len(hist) >= 2
    /\ Last(hist).branch = "paused"
    /\ hist[Len(hist) - 1].branch = "accept"

\* C10.  Informational categories never act.  A sample that matches neither an
\* accept nor a completion phrase (a busy text, a dismiss text, an unknown
\* text) makes no call of the collaborator: from the entry of handle_button
\* to its return no step changes commands_executed, messages_sent,
\* waiting_for_completion, is_paused, running or the keys held down; at the
\* return last_text becomes the sample.
C10_InfoStep ==
    (pc \in {"handle", "last"} /\ ~is_accept_button(text) /\ ~is_completed(text)) =>
       /\ HandleStep => Last(hist').branch \in {"busy", "dismiss", "none"}
       /\ pc' \in {"handle", "last", "sleep"}
       /\ emit' = NoEmit
       /\ ReturnStep => last_text' = Some(text)
       /\ UNCHANGED <<commands_executed, messages_sent, waiting_for_completion,
                      is_paused, running, keys_down>>

C10_InformationalNeverActs == [][C10_InfoStep]_vars

\* while waiting for a completion, a busy and a dismiss text were read
C10_Witness ==
    LET h == Samples IN
    /\ Len(h) = 3
    /\ AcceptDone(h[1])
    /\ h[2].branch = "busy"
    /\ h[3].branch = "dismiss"
    /\ waiting_for_completion
    /\ commands_executed = 1
    /\ messages_sent = 0
    /\ last_text = Some(h[3].text)

\* the step is the one of parse_current_step that keeps and parses the text read
ReparseStep == last_file_content' # last_file_content

\* the positions in st of the steps of status status
Having(st, status) == {j \in 1..Len(st) : st[j].status = status}

\* the path, joined, of the step of st that has the smallest line position
\* among those at the positions js
FirstOf(st, js) ==
    Join(st[CHOOSE j \in js : \A l \in js : st[j].i <= st[l].i].full_path, PathSep)

\* C11. Resolution rule.  Whenever parse_current_step parses a document, the
\* value it is about to return (new_step of its caller) is the path of the in-progress step with the smallest line position
\* if the document has an in-progress step (also when an incomplete step
\* comes earlier); otherwise that of the incomplete step with the smallest
\* line position; otherwise None.  A complete step is never selected.
C11_ResolveStep ==
    ReparseStep =>
       LET st == parsed_steps' IN
       IF Having(st, "in_progress") # {}
       THEN upd'.new_step = Some(FirstOf(st, Having(st, "in_progress")))
       ELSE IF Having(st, "incomplete") # {}
       THEN upd'.new_step = Some(FirstOf(st, Having(st, "incomplete")))
       ELSE upd'.new_step = None

C11_ResolutionRule == [][C11_ResolveStep]_vars

\* an incomplete step, then two in-progress steps: the first in-progress one
C11_Witness ==
    /\ Len(parsed_steps) = 3
    /\ parsed_steps[1].status = "incomplete"
    /\ parsed_steps[2].status = "in_progress"
    /\ parsed_steps[3].status = "in_progress"
    /\ parsed_steps[2].full_path # parsed_steps[3].full_path
    /\ shown_step = Some(Join(parsed_steps[2].full_path, PathSep))

\* the lines of the text parse_current_step read last
LastLines == SplitLines(last_file_content[1])

\* the 1-based positions of the lines of doc that carry a status glyph
GlyphLines(doc) ==
    {k \in 1..Len(doc) : \E i \in 1..Len(doc[k]) : doc[k][i] \in {"<IP>", "<INC>", "<OK>"}}

\* C12. Step count.  The list of steps the parser built from the document
\* it read last has one step for each line that carries at least one of the
\* three glyphs, heading lines included, and no other; the steps are in the
\* order of the lines of the document.
C12_StepCount ==
    last_file_content # None =>
       LET doc == LastLines IN
       /\ Len(parsed_steps) = Cardinality(GlyphLines(doc))
       /\ \A j \in 1..Len(parsed_steps) : parsed_steps[j].i + 1 \in GlyphLines(doc)
       /\ \A j \in 1..(Len(parsed_steps) - 1) : parsed_steps[j].i < parsed_steps[j + 1].i

\* a heading without a glyph, a heading with one and a complete step: two steps
C12_Witness ==
    /\ last_file_content # None
    /\ Len(LastLines) = 3
    /\ GlyphLines(LastLines) = {2, 3}
    /\ Head(LastLines[2]) = "#"
    /\ Len(parsed_steps) = 2
    /\ parsed_steps[1].i = 1
    /\ parsed_steps[2].status = "complete"

\* C13. Cache coherence.  A call of parse_current_step that returns without
\* parsing returns the resolution of the document read last, so that two
\* successive calls over the same unchanged document return the same value.
\* When select_region has returned, the calls made so far are the one of
\* show_startup_check, which parsed the file, and the one of update_status,
\* which found it unchanged and whose value is now current_step.
C13_CacheCoherence ==
    (pc = "run" /\ upd.at = "none") =>
       /\ last_file_content # None
       /\ current_step = Resolve(LastLines)
       /\ current_step = shown_step

\* C14. Read failure mid-run.  While the checklist file is missing, a refresh
\* is skipped: a call of update_status that finds no file, in either thread,
\* is about to assign to current_step the step current_step already holds.
C14_MissingFileStep ==
    /\ (steps_file = None /\ upd.kind = "update" /\ upd.at = "enter" /\ upd'.at = "step")
          => upd'.new_step = current_step
    /\ (steps_file = None /\ cmd_thread = "enter" /\ cmd_thread' = "step")
          => cmd_local'.new_step = current_step

C14_MissingFileKeepsStep == [][C14_MissingFileStep]_vars

\* the names of the steps of the metrics map that have no end time
OpenSteps == {n \in StepNames : m_steps[n] # None /\ m_steps[n][1].end_time = None}

\* C15. At most one open step.  After any sequence of calls of start_step,
\* end_step, update_step_metrics and save_metrics, at most one step of the
\* metrics map has no end time.
C15_AtMostOneOpenStep == Cardinality(OpenSteps) <= 1

\* C16. Metrics round trip.  Once end_step has ended step a, a call of
\* start_step for another step b leaves the duration recorded for a, and
\* with it the total duration, as end_step left them.
C16_StartAfterEnd ==
    \A a \in StepNames, b \in StepNames :
       ( /\ a # b
         /\ m_current = Some(a)
         /\ m_steps[a] # None
         /\ m_steps[a][1].end_time # None
         /\ m_current' = Some(b) ) =>
            /\ m_steps'[a] # None
            /\ m_steps'[a][1].duration = m_steps[a][1].duration
            /\ SumDurations(m_steps', StepNames) = SumDurations(m_steps, StepNames)

C16_MetricsRoundTrip == [][C16_StartAfterEnd]_vars

\* C17. Write-through persistence.  Whenever a call has returned and the
\* metrics map has a step, the file holds a snapshot whose per-step map is
\* the metrics map.
C17_WriteThrough ==
    (m_calls > 0 /\ \E n \in StepNames : m_steps[n] # None) =>
       /\ m_saved # None
       /\ m_saved[1].steps = m_steps

\* C18. Serialized access to session state.  While the command thread is
\* inside update_status, the poll loop makes no step that assigns
\* current_step, last_file_check, last_file_content or last_status: the two
\* threads never mutate them at overlapping times.
C18_PollWaitsForCommand ==
    (InUpdateStatus /\ cmd_thread' = cmd_thread) => UNCHANGED tracking

C18_SerializedAccess == [][C18_PollWaitsForCommand]_vars

\* C19. Operator command surface stays alive.  Whatever line handle_command
\* has processed (a command or unrecognised input), the command thread has
\* not been terminated by it.
C19_ListenerStaysAlive == last_cmd # None => cmd_thread # "dead"

\* C20. Region validation.  The poll loop never runs with an empty region:
\* the region select_region has stored is wider and higher than zero.
C20_RegionNotEmpty ==
    MainInLoop =>
       /\ region # None
       /\ region[1][3] > region[1][1]
       /\ region[1][4] > region[1][2]

\* the line of the document read last that step st was built from
LineOf(st) == LastLines[st.i + 1]

Carries(line, g) == \E i \in 1..Len(line) : line[i] = g

\* C21. Status precedence within a line.  Every step of the list the parser
\* built is in progress if its line carries the in-progress glyph, else
\* incomplete if its line carries the incomplete glyph, else complete,
\* whatever other glyphs the line carries.
C21_StatusPrecedence ==
    last_file_content # None =>
       \A j \in 1..Len(parsed_steps) :
          parsed_steps[j].status =
             IF Carries(LineOf(parsed_steps[j]), "<IP>") THEN "in_progress"
             ELSE IF Carries(LineOf(parsed_steps[j]), "<INC>") THEN "incomplete"
             ELSE "complete"

\* a line with the complete and the in-progress glyph is in progress, one with
\* the complete and the incomplete glyph is incomplete
C21_Witness ==
    /\ last_file_content # None
    /\ Len(parsed_steps) = 2
    /\ Carries(LineOf(parsed_steps[1]), "<OK>")
    /\ Carries(LineOf(parsed_steps[1]), "<IP>")
    /\ parsed_steps[1].status = "in_progress"
    /\ Carries(LineOf(parsed_steps[2]), "<OK>")
    /\ Carries(LineOf(parsed_steps[2]), "<INC>")
    /\ parsed_steps[2].status = "incomplete"

\* line k of doc is a heading of the level that has n characters '#'
IsHeading(doc, k, n) ==
    LET line == Strip(doc[k]) IN
    /\ Len(line) > n
    /\ \A i \in 1..n : line[i] = "#"
    /\ line[n + 1] = " "

\* the text of the heading at line k
HeadingText(doc, k, n) == Strip(SubSeq(Strip(doc[k]), n + 2, Len(Strip(doc[k]))))

Largest(S) == CHOOSE x \in S : \A y \in S : y <= x

\* the level-2 headings down to line k, and the level-3 headings down to
\* line k that come after the last of them
Level2To(doc, k) == {l \in 1..k : IsHeading(doc, l, 2)}
Level3To(doc, k) ==
    {l \in 1..k : /\ IsHeading(doc, l, 3)
                  /\ \A h \in Level2To(doc, k) : h < l}

SectionAt(doc, k) ==
    IF Level2To(doc, k) = {} THEN <<>> ELSE HeadingText(doc, Largest(Level2To(doc, k)), 2)

SubsectionAt(doc, k) ==
    IF Level3To(doc, k) = {} THEN <<>> ELSE HeadingText(doc, Largest(Level3To(doc, k)), 3)

\* C22. Section tracking.  The path of every step starts with the text of the
\* most recent level-2 heading down to its line (empty when the document has
\* none so far), followed by the text of the most recent level-3 heading
\* since that level-2 heading when there is one with a non-empty text: the
\* path is [section, subsection, label] then, and [section, label]
\* otherwise.  The headings are read before the glyphs of a line, so a
\* heading line that is itself a step carries its own heading.
C22_SectionTracking ==
    last_file_content # None =>
       \A j \in 1..Len(parsed_steps) :
          LET doc == LastLines
              k == parsed_steps[j].i + 1
              path == parsed_steps[j].full_path
          IN  IF SubsectionAt(doc, k) # <<>>
              THEN /\ Len(path) = 3
                   /\ path[1] = SectionAt(doc, k)
                   /\ path[2] = SubsectionAt(doc, k)
              ELSE /\ Len(path) = 2
                   /\ path[1] = SectionAt(doc, k)

\* a level-3 heading, a level-2 heading, a step: the subsection was cleared
C22_Witness ==
    /\ last_file_content # None
    /\ Len(LastLines) = 3
    /\ IsHeading(LastLines, 1, 3)
    /\ IsHeading(LastLines, 2, 2)
    /\ Len(parsed_steps) = 1
    /\ parsed_steps[1].i = 2
    /\ parsed_steps[1].full_path = <<HeadingText(LastLines, 2, 2), <<"a">>>>

\* the calls of the accept branch that make up the direct press / release
DirectCalls == {j \in 1..Len(AcceptCalls) : AcceptCalls[j].op \in {"press", "release"}}
HotkeyCalls == {j \in 1..Len(AcceptCalls) : AcceptCalls[j].op = "hotkey"}

\* the calls js of the accept action e were all made and all returned
AllReturned(js, e) == \A j \in js : j <= e.calls
\* the first of the calls js was made (it returned, or it is the one that raised)
Attempted(js, e) == \E j \in js : j <= e.calls \/ j = e.fail

\* one of the two mechanisms delivered the key combination
Delivered(e) == AllReturned(DirectCalls, e) \/ AllReturned(HotkeyCalls, e)

\* C23. Redundant accept delivery.  Once handle_button has returned: in every
\* accept action both mechanisms
\* are attempted, the direct press / release and then the hotkey, whichever
\* of them fails; and the accept counts as emitted whenever at least one of
\* them delivered: commands_executed counts those accept actions, and
\* waiting_for_completion is set by each of them.
C23_RedundantDelivery ==
    LET h == Samples IN
    Returned =>
       /\ \A j \in 1..Len(h) :
             h[j].branch = "accept" =>
                Attempted(DirectCalls, h[j]) /\ Attempted(HotkeyCalls, h[j])
       /\ commands_executed =
             Cardinality({j \in 1..Len(h) : h[j].branch = "accept" /\ Delivered(h[j])})
       /\ (h # <<>> /\ Last(h).branch = "accept" /\ Delivered(Last(h))) =>
             waiting_for_completion

\* C24. An unchanged sample triggers nothing.  A sample equal to the sample
\* processed before it (which is last_text) takes neither the accept nor the
\* continue branch, whatever phrases it matches; and once handle_button has
\* returned from a sample last_text is that sample.
C24_UnchangedTriggersNothing ==
    LET h == Samples IN
    /\ \A j \in 2..Len(h) :
          h[j].text = h[j - 1].text => h[j].branch \notin {"accept", "continue"}
    /\ (h # <<>> /\ Returned) => last_text = Some(Last(h).text)

\* what get_button_text makes of an answer: .lower().strip()
Normal(answer) == Strip(LowerStr(answer))

\* profile k is the first one whose answer is a text: the profiles before it
\* answered with a blank, none of them with an exception
FirstWithText(results, k) ==
    /\ results[k] # OcrRaise
    /\ Normal(results[k]) # <<>>
    /\ \A l \in 1..(k - 1) : results[l] # OcrRaise /\ Normal(results[l]) = <<>>

\* the step is a call of get_button_text by the poll loop
SampleStep == pc = "sample" /\ pc' # "sample"

\* C25. Recognition fallback.  get_button_text asks the profiles in the order
\* single-line, block, fully-automatic and returns the first answer that is
\* not empty, which handle_button is then called with.  When the capture
\* fails, when the recognition raises before a text was found, or when every
\* profile answers with a blank, the text is empty: handle_button is not
\* called in that iteration, which emits nothing and leaves last_text,
\* waiting_for_completion and the counters unchanged, and the poll loop goes
\* on to its sleep.
C25_SampleOutcome ==
    SampleStep =>
       IF ocr'.screenshot /\ \E k \in 1..Len(Profiles) : FirstWithText(ocr'.results, k)
       THEN /\ \E k \in 1..Len(Profiles) :
                  /\ FirstWithText(ocr'.results, k)
                  /\ text' = Normal(ocr'.results[k])
            /\ pc' = "handle"
       ELSE /\ text' = <<>>
            /\ pc' = "sleep"
            /\ Last(hist').branch = "skipped"
            /\ UNCHANGED <<last_text, waiting_for_completion, messages_sent,
                           commands_executed, keys_down, running, is_paused>>

C25_RecognitionFallback ==
    /\ [][C25_SampleOutcome]_vars
    /\ [][pc = "sleep" => pc' \in {"sleep", "top"}]_vars

\* an iteration skipped for want of a text, then an iteration in which the
\* first profile gave a blank and the two others different texts
C25_Witness ==
    /\ Len(hist) = 1
    /\ hist[1].branch = "skipped"
    /\ pc = "handle"
    /\ ocr.screenshot
    /\ Normal(ocr.results[1]) = <<>>
    /\ Normal(ocr.results[2]) # <<>>
    /\ ocr.results[3] \notin {ocr.results[2], OcrRaise}
    /\ Normal(ocr.results[3]) # <<>>
    /\ text = Normal(ocr.results[2])
    /\ text # ocr.results[2]

\* C26. Counter invariant.  In every reachable state messages_sent is at most
\* commands_executed, and waiting_for_completion is true only if
\* commands_executed is at least one; between any two continue actions that
\* were emitted there is an accept action that was emitted.
C26_CounterInvariant ==
    LET h == Samples IN
    /\ messages_sent <= commands_executed
    /\ waiting_for_completion => commands_executed >= 1
    /\ \A i \in 1..Len(h), j \in 1..Len(h) :
          (i < j /\ ContinueDone(h[i]) /\ ContinueDone(h[j])) =>
             \E k \in (i + 1)..(j - 1) : AcceptDone(h[k])

\* accept, continue, accept, continue: the counters are level at two
C26_Witness ==
    LET h == Samples IN
    /\ Len(h) = 4
    /\ AcceptDone(h[1]) /\ ContinueDone(h[2])
    /\ AcceptDone(h[3]) /\ ContinueDone(h[4])
    /\ messages_sent = 2
    /\ commands_executed = 2
    /\ ~waiting_for_completion

\* C27. No stuck modifier.  Whenever handle_button has returned, whether the
\* accept emission succeeded or failed at some call, every key it pressed has
\* been released: outside handle_button no key is held down.
C27_NoStuckModifier == Returned => keys_down = {}

\* step a of the metrics map has been closed by end_step
Ended(stepmap, a) == stepmap[a] # None /\ stepmap[a][1].end_time # None

\* C28. Ended steps are immutable to later starts.  A call of start_step that
\* makes b the current step leaves the status and the end time of every other
\* step that end_step has closed as they were: a step ended as failed is
\* still recorded as failed.
C28_StartKeepsEnded ==
    \A a \in StepNames, b \in StepNames :
       ( /\ a # b
         /\ Ended(m_steps, a)
         /\ m_current # Some(b)
         /\ m_current' = Some(b) ) =>
            /\ Ended(m_steps', a)
            /\ m_steps'[a][1].status = m_steps[a][1].status
            /\ m_steps'[a][1].end_time = m_steps[a][1].end_time

C28_EndedStepsImmutable == [][C28_StartKeepsEnded]_vars

\* C29. Startup diagnostics agree with the parser.  When show_startup_check
\* has validated and parsed the document, total_steps of the diagnostics is
\* the number of steps the parser collected, and in_progress, incomplete and
\* completed are the numbers of parsed steps of each status, also for lines
\* that carry several glyphs and for heading lines that carry a glyph.
C29_DiagnosticsAgree ==
    (pc = "starting" /\ upd.at = "none" /\ diagnostics # None) =>
       /\ diagnostics[1].total_steps = Len(parsed_steps)
       /\ diagnostics[1].in_progress = Len(WithStatus(parsed_steps, "in_progress"))
       /\ diagnostics[1].incomplete = Len(WithStatus(parsed_steps, "incomplete"))
       /\ diagnostics[1].completed = Len(WithStatus(parsed_steps, "complete"))

====
